---- MODULE Spec2Model ----
(***************************************************************************)
(* Model of the MemTable server's connection-concurrency engine:           *)
(* Server.handleRead (one goroutine per accepted socket), the bounded      *)
(* hand-off channel Server.commands and Server.eventLoop, the single        *)
(* goroutine that executes commands and runs the timed events.             *)
(*                                                                         *)
(* Client.cmd and Client.status are plain fields shared by the two         *)
(* goroutine roles without synchronisation, so every read and every write  *)
(* of them is a step of its own and the steps interleave freely.           *)
(*                                                                         *)
(* Time is counted in half seconds and kept as distances to the present:   *)
(* a timer or a time event by the time left until it is due, a timestamp   *)
(* by its age.  Computation takes no time, only waiting does: the clock    *)
(* advances while the event loop is blocked and every handler waits for    *)
(* its peer, for a reply or for room in a channel.                         *)
(***************************************************************************)
EXTENDS Naturals, Integers, Sequences, FiniteSets, TLC

\* ---------------------------------------------------------------- bounds
NumClients == 2      \* sockets the accept loop accepts
MaxFrames == 2       \* command frames one peer sends
MaxArgs == 3         \* longest command frame, in arguments
QueueCap == 2        \* capacity of Server.commands, scaled down from 1000
SweepPeriod == 2     \* period and first fire of the idle sweep, scaled down from 300 s
IdleThreshold == 2   \* idle time the sweep looks for, scaled down from 300 s

\* ------------------------------------------------------- program constants
TickPeriod == 2      \* time.NewTimer(time.Second): two half seconds
SweepNum == 1        \* RemoveLongNotUsed(1, ...)
ReplyCap == 1        \* capacity of Client.res
ExitCap == 1         \* capacity of Client.exit

TickSlack == 2       \* tick periods sinceTick is counted up to
MaxAge == TickSlack * TickPeriod + 1

Clients == 1..NumClients
ArgCounts == 2..MaxArgs
\* the first peer pipelines up to MaxFrames command frames, the others send one
FrameLimit(c) == IF c = 1 THEN MaxFrames ELSE 1

\* Client.cmd == nil
NoCmd == [n |-> 0, argc |-> 0]
\* the n-th command frame of a peer, with argc arguments
Cmd(n, argc) == [n |-> n, argc |-> argc]

\* ClientStatus values
ACTIVE == "ACTIVE"
ERROR == "ERROR"
EXIT == "EXIT"

VARIABLES
    commands,   \* Server.commands: the clients buffered in the channel
    clis,       \* Server.clis: the registered clients
    sweepLeft,  \* Server.tl: time until the idle-sweep time event is due
    cmd,        \* Client.cmd
    status,     \* Client.status
    res,        \* Client.res: replies buffered in the channel
    exitCh,     \* Client.exit: signals buffered in the channel
    idle,       \* age of Client.tp, the last-active timestamp
    hpc,        \* position of each handleRead goroutine
    r,          \* the reply a handler has received and is writing to its socket
    frames,     \* command frames each handler has decoded so far
    cause,      \* why a handler left its loop, until it has settled its status
    closes,     \* conn.Close() calls per connection
    wrote,      \* replies written to each socket
    lpc,        \* position of the eventLoop goroutine
    cli,        \* eventLoop: the client received from Server.commands
    route,      \* eventLoop: the handler chosen by len(cli.cmd)
    reply,      \* eventLoop: res, the reply computed by the handler
    executing,  \* goroutines currently inside cmd.Get / cmd.Set
    timerLeft,  \* eventLoop: time until the timer of this iteration fires
    sinceTick,  \* time since the timer branch was last taken
    fwdLog,     \* history: commands sent on Server.commands, in order
    execLog     \* history: commands handed to cmd.Get / cmd.Set, in order

vars == <<commands, clis, sweepLeft, cmd, status, res, exitCh, idle, hpc, r,
          frames, cause, closes, wrote, lpc, cli, route, reply, executing,
          timerLeft, sinceTick, fwdLog, execLog>>

hvars == <<cmd, status, res, exitCh, hpc, r, frames, cause, closes, wrote>>
lvars == <<lpc, cli, route, reply, executing, timerLeft, sinceTick>>

\* NewServer; the fields of a client have the values NewClient gives them
\* until its connection is accepted
Init ==
    /\ commands = <<>>
    /\ clis = {}
    /\ sweepLeft = SweepPeriod
    /\ cmd = [c \in Clients |-> NoCmd]
    /\ status = [c \in Clients |-> ACTIVE]
    /\ res = [c \in Clients |-> <<>>]
    /\ exitCh = [c \in Clients |-> 0]
    /\ idle = [c \in Clients |-> 0]
    /\ hpc = [c \in Clients |-> "none"]
    /\ r = [c \in Clients |-> 0]
    /\ frames = [c \in Clients |-> 0]
    /\ cause = [c \in Clients |-> "none"]
    /\ closes = [c \in Clients |-> 0]
    /\ wrote = [c \in Clients |-> <<>>]
    /\ lpc = "select"
    /\ cli = 0
    /\ route = "none"
    /\ reply = 0
    /\ executing = {}
    /\ timerLeft = TickPeriod
    /\ sinceTick = 0
    /\ fwdLog = <<>>
    /\ execLog = <<>>

\* an accept that puts the new session into the registry at once
AcceptRegistered(c) ==
    /\ hpc[c] = "none"
    /\ hpc' = [hpc EXCEPT ![c] = "loop"]
    /\ idle' = [idle EXCEPT ![c] = 0]
    /\ clis' = clis \cup {c}
    /\ UNCHANGED <<commands, sweepLeft, cmd, status, res, exitCh, frames, cause,
                   closes, wrote, fwdLog, execLog>>
    /\ UNCHANGED lvars
    /\ UNCHANGED r

\* ------------------------------------------------------------ handleRead
\* Start: listener.Accept() and go s.handleRead(conn); handleRead creates the
\* client with NewClient and starts the parser.
Accept(c) ==
    /\ hpc[c] = "none"
    /\ hpc' = [hpc EXCEPT ![c] = "loop"]
    /\ idle' = [idle EXCEPT ![c] = 0]
    /\ UNCHANGED <<commands, clis, sweepLeft, cmd, status, res, exitCh, frames,
                   cause, closes, wrote, fwdLog, execLog>>
    /\ UNCHANGED lvars
    /\ UNCHANGED r

\* what the parser can deliver that ends the loop: an EOF, another error or a
\* frame that is no array
ParseFailures == {"eof", "error", "notarray"}

\* case parsed := <-ch with parsed.Err != nil, or parsed.Data no *resp.ArrayData:
\* running = false
HandleParseFailure(c) ==
    /\ hpc[c] = "loop"
    /\ \E k \in ParseFailures : cause' = [cause EXCEPT ![c] = k]
    /\ hpc' = [hpc EXCEPT ![c] = "after"]
    /\ UNCHANGED <<commands, clis, sweepLeft, cmd, status, res, exitCh, idle,
                   frames, closes, wrote, fwdLog, execLog>>
    /\ UNCHANGED lvars
    /\ UNCHANGED r

\* case parsed := <-ch with an array frame: client.cmd = array.ToCommand()
HandleParsed(c) ==
    /\ hpc[c] = "loop"
    /\ frames[c] < FrameLimit(c)
    /\ \E a \in ArgCounts : cmd' = [cmd EXCEPT ![c] = Cmd(frames[c] + 1, a)]
    /\ frames' = [frames EXCEPT ![c] = @ + 1]
    /\ hpc' = [hpc EXCEPT ![c] = "send"]
    /\ UNCHANGED <<commands, clis, sweepLeft, status, res, exitCh, idle, cause,
                   closes, wrote, fwdLog, execLog>>
    /\ UNCHANGED lvars
    /\ UNCHANGED r

\* a send on Server.commands blocks while the channel is full
CanSend == Len(commands) < QueueCap

\* a handler that runs the command itself instead of handing it over
HandleForwardDirect(c) ==
    /\ hpc[c] = "send"
    /\ executing' = executing \cup
           {[by |-> "handleRead", fn |-> IF cmd[c].argc = 2 THEN "Get" ELSE "Set",
             cli |-> c, arg |-> cmd[c]]}
    /\ hpc' = [hpc EXCEPT ![c] = "loop"]
    /\ UNCHANGED <<commands, clis, sweepLeft, cmd, status, res, exitCh, idle,
                   frames, cause, closes, wrote, lpc, cli, route, reply,
                   timerLeft, sinceTick, fwdLog, execLog>>
    /\ UNCHANGED r

\* s.commands <- client, after a command frame
HandleForward(c) ==
    /\ hpc[c] = "send"
    /\ CanSend
    /\ commands' = Append(commands, c)
    /\ fwdLog' = Append(fwdLog, <<c, cmd[c].n>>)
    /\ hpc' = [hpc EXCEPT ![c] = "loop"]
    /\ UNCHANGED <<clis, sweepLeft, cmd, status, res, exitCh, idle, frames, cause,
                   closes, wrote, execLog>>
    /\ UNCHANGED lvars
    /\ UNCHANGED r

\* case r := <-client.res
HandleReply(c) ==
    /\ hpc[c] = "loop"
    /\ res[c] # <<>>
    /\ r' = [r EXCEPT ![c] = Head(res[c])]
    /\ res' = [res EXCEPT ![c] = Tail(@)]
    /\ hpc' = [hpc EXCEPT ![c] = "write"]
    /\ UNCHANGED <<commands, clis, sweepLeft, cmd, status, exitCh, idle, frames,
                   cause, closes, wrote, fwdLog, execLog>>
    /\ UNCHANGED lvars

\* _, err := conn.Write([]byte(r)); if err != nil { running = false }
HandleWrite(c) ==
    /\ hpc[c] = "write"
    /\ r' = [r EXCEPT ![c] = 0]
    /\ \/ /\ wrote' = [wrote EXCEPT ![c] = Append(@, r[c])]
          /\ hpc' = [hpc EXCEPT ![c] = "loop"]
          /\ UNCHANGED cause
       \/ /\ hpc' = [hpc EXCEPT ![c] = "after"]
          /\ cause' = [cause EXCEPT ![c] = "write"]
          /\ UNCHANGED wrote
    /\ UNCHANGED <<commands, clis, sweepLeft, cmd, status, res, exitCh, idle,
                   frames, closes, fwdLog, execLog>>
    /\ UNCHANGED lvars

\* case <-client.exit: running = false
HandleExit(c) ==
    /\ hpc[c] = "loop"
    /\ exitCh[c] > 0
    /\ exitCh' = [exitCh EXCEPT ![c] = @ - 1]
    /\ hpc' = [hpc EXCEPT ![c] = "after"]
    /\ cause' = [cause EXCEPT ![c] = "exit"]
    /\ UNCHANGED <<commands, clis, sweepLeft, cmd, status, res, idle, frames,
                   closes, wrote, fwdLog, execLog>>
    /\ UNCHANGED lvars
    /\ UNCHANGED r

\* if client.status != EXIT
HandleCheckStatus(c) ==
    /\ hpc[c] = "after"
    /\ IF status[c] # EXIT
       THEN hpc' = [hpc EXCEPT ![c] = "setError"] /\ UNCHANGED cause
       ELSE /\ hpc' = [hpc EXCEPT ![c] = "close"]
            /\ cause' = [cause EXCEPT ![c] = "none"]
    /\ UNCHANGED <<commands, clis, sweepLeft, cmd, status, res, exitCh, idle,
                   frames, closes, wrote, fwdLog, execLog>>
    /\ UNCHANGED lvars
    /\ UNCHANGED r

\* client.status = ERROR
HandleSetError(c) ==
    /\ hpc[c] = "setError"
    /\ status' = [status EXCEPT ![c] = ERROR]
    /\ hpc' = [hpc EXCEPT ![c] = "clearCmd"]
    /\ cause' = [cause EXCEPT ![c] = "none"]
    /\ UNCHANGED <<commands, clis, sweepLeft, cmd, res, exitCh, idle, frames,
                   closes, wrote, fwdLog, execLog>>
    /\ UNCHANGED lvars
    /\ UNCHANGED r

\* client.cmd = nil
HandleClearCmd(c) ==
    /\ hpc[c] = "clearCmd"
    /\ cmd' = [cmd EXCEPT ![c] = NoCmd]
    /\ hpc' = [hpc EXCEPT ![c] = "notify"]
    /\ UNCHANGED <<commands, clis, sweepLeft, status, res, exitCh, idle, frames,
                   cause, closes, wrote, fwdLog, execLog>>
    /\ UNCHANGED lvars
    /\ UNCHANGED r

\* a handler that takes its session out of the registry itself
HandleNotifyDirect(c) ==
    /\ hpc[c] = "notify"
    /\ clis' = clis \ {c}
    /\ hpc' = [hpc EXCEPT ![c] = "close"]
    /\ UNCHANGED <<commands, sweepLeft, cmd, status, res, exitCh, idle, frames,
                   cause, closes, wrote, fwdLog, execLog>>
    /\ UNCHANGED lvars
    /\ UNCHANGED r

\* a handler that leaves without the notification of its abnormal exit
HandleNotifyDropped(c) ==
    /\ hpc[c] = "notify"
    /\ hpc' = [hpc EXCEPT ![c] = "close"]
    /\ UNCHANGED <<commands, clis, sweepLeft, cmd, status, res, exitCh, idle,
                   frames, cause, closes, wrote, fwdLog, execLog>>
    /\ UNCHANGED lvars
    /\ UNCHANGED r

\* s.commands <- client, the notification of the abnormal exit
HandleNotify(c) ==
    /\ hpc[c] = "notify"
    /\ CanSend
    /\ commands' = Append(commands, c)
    /\ hpc' = [hpc EXCEPT ![c] = "close"]
    /\ UNCHANGED <<clis, sweepLeft, cmd, status, res, exitCh, idle, frames, cause,
                   closes, wrote, fwdLog, execLog>>
    /\ UNCHANGED lvars
    /\ UNCHANGED r

\* a handler that writes the replies left in client.res before it closes
HandleCloseFlushed(c) ==
    /\ hpc[c] = "close"
    /\ wrote' = [wrote EXCEPT ![c] = @ \o res[c]]
    /\ res' = [res EXCEPT ![c] = <<>>]
    /\ closes' = [closes EXCEPT ![c] = @ + 1]
    /\ hpc' = [hpc EXCEPT ![c] = "done"]
    /\ UNCHANGED <<commands, clis, sweepLeft, cmd, status, exitCh, idle, frames,
                   cause, fwdLog, execLog>>
    /\ UNCHANGED lvars
    /\ UNCHANGED r

\* a handler that returns without closing its connection
HandleCloseSkipped(c) ==
    /\ hpc[c] = "close"
    /\ hpc' = [hpc EXCEPT ![c] = "done"]
    /\ UNCHANGED <<commands, clis, sweepLeft, cmd, status, res, exitCh, idle,
                   frames, cause, closes, wrote, fwdLog, execLog>>
    /\ UNCHANGED lvars
    /\ UNCHANGED r

\* conn.Close()
HandleClose(c) ==
    /\ hpc[c] = "close"
    /\ closes' = [closes EXCEPT ![c] = @ + 1]
    /\ hpc' = [hpc EXCEPT ![c] = "done"]
    /\ UNCHANGED <<commands, clis, sweepLeft, cmd, status, res, exitCh, idle,
                   frames, cause, wrote, fwdLog, execLog>>
    /\ UNCHANGED lvars
    /\ UNCHANGED r

handleRead(c) ==
    \/ HandleParseFailure(c)
    \/ HandleParsed(c)
    \/ HandleForward(c)
    \/ HandleReply(c)
    \/ HandleWrite(c)
    \/ HandleExit(c)
    \/ HandleCheckStatus(c)
    \/ HandleSetError(c)
    \/ HandleClearCmd(c)
    \/ HandleNotify(c)
    \/ HandleClose(c)

\* ------------------------------------------------------------- ClientList
\* the registered clients whose last activity is d or more ago
LongNotUsed(d) == {c \in clis : idle[c] >= d}

\* ClientList.RemoveLongNotUsed(num, d): up to num of the registered clients
\* whose last activity is d or more ago are removed from the list, marked EXIT
\* and told to leave through their exit channel.
RemoveLongNotUsed(num, d) ==
    \E gone \in SUBSET LongNotUsed(d) :
        /\ Cardinality(gone) = IF Cardinality(LongNotUsed(d)) < num
                               THEN Cardinality(LongNotUsed(d)) ELSE num
        /\ clis' = clis \ gone
        /\ status' = [c \in Clients |-> IF c \in gone THEN EXIT ELSE status[c]]
        /\ exitCh' = [c \in Clients |->
                        IF c \in gone /\ exitCh[c] < ExitCap
                        THEN exitCh[c] + 1 ELSE exitCh[c]]

\* TimeEventList.ExecuteOneIfExpire with the one periodic event eventLoop adds:
\* a due event runs its callback and is re-armed one period after now.
ExecuteOneIfExpire ==
    IF sweepLeft = 0
    THEN /\ RemoveLongNotUsed(SweepNum, IdleThreshold)
         /\ sweepLeft' = SweepPeriod
    ELSE UNCHANGED <<clis, status, exitCh, sweepLeft>>
    /\ UNCHANGED r

\* -------------------------------------------------------------- eventLoop
\* the top of the for loop: timer := time.NewTimer(time.Second), then select;
\* cli and res are variables of one iteration
NextIteration ==
    /\ lpc' = "select"
    /\ timerLeft' = TickPeriod
    /\ cli' = 0
    /\ reply' = 0

\* case <-timer.C: s.tl.ExecuteOneIfExpire()
LoopTimer ==
    /\ lpc = "select"
    /\ timerLeft = 0
    /\ ExecuteOneIfExpire
    /\ sinceTick' = 0
    /\ NextIteration
    /\ UNCHANGED <<commands, cmd, res, idle, hpc, frames, cause, closes, wrote,
                   route, executing, fwdLog, execLog>>
    /\ UNCHANGED r

\* case cli := <-s.commands
LoopReceive ==
    /\ lpc = "select"
    /\ commands # <<>>
    /\ cli' = Head(commands)
    /\ commands' = Tail(commands)
    /\ lpc' = "checkCmd"
    /\ UNCHANGED <<clis, sweepLeft, idle, route, reply, executing, timerLeft,
                   sinceTick, fwdLog, execLog>>
    /\ UNCHANGED hvars

\* if cli.cmd == nil { continue }
LoopCheckCmd ==
    /\ lpc = "checkCmd"
    /\ IF cmd[cli] = NoCmd
       THEN NextIteration
       ELSE lpc' = "checkStatus" /\ UNCHANGED <<timerLeft, cli, reply>>
    /\ UNCHANGED <<commands, clis, sweepLeft, idle, route, executing,
                   sinceTick, fwdLog, execLog>>
    /\ UNCHANGED hvars

\* an event loop that refreshes the timestamp before it looks at the status
LoopCheckStatusEager ==
    /\ lpc = "checkStatus"
    /\ idle' = [idle EXCEPT ![cli] = 0]
    /\ IF status[cli] \in {ERROR, EXIT}
       THEN /\ clis' = clis \ {cli}
            /\ NextIteration
       ELSE /\ clis' = clis \cup {cli}
            /\ lpc' = "route"
            /\ UNCHANGED <<timerLeft, cli, reply>>
    /\ UNCHANGED <<commands, sweepLeft, route, executing, sinceTick, fwdLog,
                   execLog>>
    /\ UNCHANGED hvars

\* if cli.status == ERROR || cli.status == EXIT { s.clis.RemoveClient(cli);
\* continue }; otherwise s.clis.AddClientIfNotExist(cli); cli.UpdateTimestamp()
LoopCheckStatus ==
    /\ lpc = "checkStatus"
    /\ IF status[cli] \in {ERROR, EXIT}
       THEN /\ clis' = clis \ {cli}
            /\ NextIteration
            /\ UNCHANGED idle
       ELSE /\ clis' = clis \cup {cli}
            /\ idle' = [idle EXCEPT ![cli] = 0]
            /\ lpc' = "route"
            /\ UNCHANGED <<timerLeft, cli, reply>>
    /\ UNCHANGED <<commands, sweepLeft, route, executing, sinceTick, fwdLog,
                   execLog>>
    /\ UNCHANGED hvars

\* if len(cli.cmd) == 2 { cmd.Get } else { cmd.Set }
Route(argc) == IF argc = 2 THEN "Get" ELSE "Set"

LoopRoute ==
    /\ lpc = "route"
    /\ route' = Route(cmd[cli].argc)
    /\ lpc' = "call"
    /\ UNCHANGED <<commands, clis, sweepLeft, idle, cli, reply, executing,
                   timerLeft, sinceTick, fwdLog, execLog>>
    /\ UNCHANGED hvars

\* the goroutine that calls cmd.Get / cmd.Set
Executor == "eventLoop"

\* res = cmd.Get(cli.db, cli.cmd) or cmd.Set(cli.db, cli.cmd): the call, which
\* reads cli.cmd once more
LoopCall ==
    /\ lpc = "call"
    /\ executing' = executing \cup
           {[by |-> Executor, fn |-> route, cli |-> cli, arg |-> cmd[cli]]}
    /\ execLog' = Append(execLog, <<cli, cmd[cli].n>>)
    /\ lpc' = "return"
    /\ UNCHANGED <<commands, clis, sweepLeft, idle, cli, route, reply,
                   timerLeft, sinceTick, fwdLog>>
    /\ UNCHANGED hvars

\* the reply cmd.Get / cmd.Set computes: it names the command it answers
Reply(e) == e.arg.n

\* cmd.Get / cmd.Set returns
LoopReturn ==
    /\ lpc = "return"
    /\ \E e \in executing :
          /\ e.by = Executor
          /\ reply' = Reply(e)
          /\ executing' = executing \ {e}
    /\ route' = "none"
    /\ lpc' = "send"
    /\ UNCHANGED <<commands, clis, sweepLeft, idle, cli, timerLeft, sinceTick,
                   fwdLog, execLog>>
    /\ UNCHANGED hvars

\* a send on Client.res blocks while the channel is full
CanReply(c) == Len(res[c]) < ReplyCap

\* cli.res <- string(res.ToBytes())
LoopSend ==
    /\ lpc = "send"
    /\ CanReply(cli)
    /\ res' = [res EXCEPT ![cli] = Append(@, reply)]
    /\ NextIteration
    /\ UNCHANGED <<commands, clis, sweepLeft, cmd, status, exitCh, idle, hpc,
                   frames, cause, closes, wrote, route, executing, sinceTick,
                   fwdLog, execLog>>
    /\ UNCHANGED r

eventLoop ==
    \/ LoopTimer
    \/ LoopReceive
    \/ LoopCheckCmd
    \/ LoopCheckStatus
    \/ LoopRoute
    \/ LoopCall
    \/ LoopReturn
    \/ LoopSend

\* ------------------------------------------------------------------ time
\* the event loop is blocked in its select or in its send on cli.res
LoopBlocked ==
    \/ lpc = "select" /\ commands = <<>> /\ timerLeft > 0
    \/ lpc = "send" /\ ~CanReply(cli)

\* a handler waits in its select with nothing but the parser to hear from,
\* in a send on the full Server.commands, or in conn.Write on its socket
HandlerWaiting(c) ==
    \/ hpc[c] \in {"none", "done"}
    \/ hpc[c] = "loop" /\ res[c] = <<>> /\ exitCh[c] = 0
    \/ hpc[c] \in {"send", "notify"} /\ ~CanSend
    \/ hpc[c] = "write"

Older(age, max) == IF age < max THEN age + 1 ELSE age
Nearer(left) == IF left > 0 THEN left - 1 ELSE 0

\* half a second passes
Advance ==
    /\ LoopBlocked
    /\ \A c \in Clients : HandlerWaiting(c)
    /\ timerLeft' = Nearer(timerLeft)
    /\ sweepLeft' = Nearer(sweepLeft)
    /\ sinceTick' = Older(sinceTick, MaxAge)
    /\ idle' = [c \in Clients |->
                  IF hpc[c] = "none" THEN idle[c] ELSE Older(idle[c], IdleThreshold)]
    /\ UNCHANGED <<commands, clis, lpc, cli, route, reply, executing, fwdLog,
                   execLog>>
    /\ UNCHANGED hvars

Next ==
    \/ \E c \in Clients : Accept(c)
    \/ \E c \in Clients : handleRead(c)
    \/ eventLoop
    \/ Advance

Spec == Init /\ [][Next]_vars

\* ---------------------------------------------------------------- claims
\* the commands session c has sent on Server.commands, in order
Forwarded(c) ==
    LET own == SelectSeq(fwdLog, LAMBDA e : e[1] = c)
    IN  [k \in DOMAIN own |-> own[k][2]]

\* the commands of session c handed to cmd.Get / cmd.Set, in order
Executed(c) ==
    LET own == SelectSeq(execLog, LAMBDA e : e[1] = c)
    IN  [k \in DOMAIN own |-> own[k][2]]

IsPrefix(s, t) == Len(s) <= Len(t) /\ \A k \in DOMAIN s : s[k] = t[k]

\* the event loop waits in its select and nothing is left in Server.commands
LoopIdle == lpc = "select" /\ commands = <<>>

\* the handler of c has left its for loop: it never receives from c.res again
LeftLoop(c) == hpc[c] \in {"after", "setError", "clearCmd", "notify", "close", "done"}

\* the event loop is blocked in cli.res <- ... with nobody left to receive
LoopStuck == lpc = "send" /\ ~CanReply(cli) /\ LeftLoop(cli)

\* C1: at every moment at most one command is being executed by cmd.Get /
\* cmd.Set, and the goroutine executing it is the event loop, never a handler.
C1_SingleExecutor ==
    /\ Cardinality(executing) <= 1
    /\ \A e \in executing : e.by = "eventLoop"

\* C1 witness: a command is being executed while another session has a command
\* waiting in the hand-off queue and a third command is about to be sent.
C1_Witness ==
    /\ executing # {}
    /\ commands # <<>>
    /\ \E c \in Clients : hpc[c] = "send" /\ \A e \in executing : e.cli # c

\* C2: for every session the commands executed are the commands forwarded, in
\* the same order, each once: what has been executed is a prefix of what was
\* forwarded, and nothing forwarded is left out once the queue is drained.
C2_ExecutedAsForwarded ==
    \A c \in Clients :
        /\ IsPrefix(Executed(c), Forwarded(c))
        /\ LoopIdle => Executed(c) = Forwarded(c)

\* C3: for a session that stays connected the k-th reply written to its socket
\* answers the k-th command it forwarded, and once everything is drained as
\* many replies were written as commands were forwarded.
C3_RepliesAsForwarded ==
    \A c \in Clients :
        hpc[c] \in {"loop", "send"} =>
            /\ IsPrefix(wrote[c], Forwarded(c))
            /\ (LoopIdle /\ res[c] = <<>> /\ hpc[c] = "loop")
                   => Len(wrote[c]) = Len(Forwarded(c))

\* C4: the event loop is never blocked for good in its send on a session's
\* reply channel, whatever that session does.
C4_LoopNeverStuck == ~LoopStuck

\* C5: when the event loop finds no command on the client it dequeued and the
\* client's status is ERROR or EXIT, the client leaves the registry (and the
\* loop goes back to its select without executing anything).
C5_StatusOnlyRemoves ==
    [][(/\ lpc = "checkCmd"
        /\ lpc' = "select"
        /\ cmd[cli] = NoCmd
        /\ status[cli] \in {ERROR, EXIT}) => cli \notin clis']_vars

\* the handler of c settles the status it leaves behind
Settles(c) == hpc[c] \in {"after", "setError"} /\ hpc'[c] \in {"clearCmd", "close"}

\* C6: a handler that ended on EOF leaves its session in status EXIT; one that
\* ended on another decode error or on a frame that is no array leaves ERROR.
C6_EofExitErrorError ==
    [][\A c \in Clients :
          Settles(c) =>
             /\ cause[c] = "eof" => status'[c] = EXIT
             /\ cause[c] \in {"error", "notarray"} => status'[c] = ERROR]_vars

\* the place of a command in the order of arrival on the queue, 0 if it never
\* arrived
Arrival(e) ==
    IF \E k \in DOMAIN fwdLog : fwdLog[k] = e
    THEN CHOOSE k \in DOMAIN fwdLog : fwdLog[k] = e
    ELSE 0

\* C7: commands of different sessions are executed in the order in which they
\* arrived on the hand-off queue.
C7_ExecutedInArrivalOrder ==
    \A i, j \in DOMAIN execLog :
        (i < j /\ execLog[i][1] # execLog[j][1])
            => Arrival(execLog[i]) < Arrival(execLog[j])

\* a handler is blocked in its send on the full Server.commands
SendBlocked(c) == hpc[c] \in {"send", "notify"} /\ ~CanSend

\* C8: a send on the full queue blocks, and what is buffered in the queue or
\* blocked in a send is dequeued in the end: the event loop never stops for
\* good while a client is buffered or a handler is blocked in its send.
C8_BufferedGetDequeued ==
    (commands # <<>> \/ \E c \in Clients : SendBlocked(c)) => ~LoopStuck

\* C9: the timer branch is taken once per tick period whatever arrives on the
\* queue: it never lags more than TickSlack periods behind.
C9_TickNotStarved == sinceTick <= TickSlack * TickPeriod

\* the idle sweep runs
SweepRuns ==
    lpc = "select" /\ timerLeft = 0 /\ sweepLeft = 0 /\ sweepLeft' = SweepPeriod

\* the connection of c is open and its handler in its loop
Connected(c) == hpc[c] \in {"loop", "send"}

\* C10: a sweep removes every connected session idle for the threshold or
\* longer, one that never sent a command included, and tells its handler to
\* close; it leaves alone every session with traffic inside the threshold.
C10_SweepReapsIdle ==
    [][SweepRuns =>
          \A c \in Clients :
             /\ (Connected(c) /\ idle[c] >= IdleThreshold)
                    => (c \notin clis' /\ status'[c] = EXIT /\ exitCh'[c] > 0)
             /\ idle[c] < IdleThreshold
                    => (status'[c] = status[c] /\ exitCh'[c] = exitCh[c])]_vars

\* C11: whatever ended its loop, a handler closes its socket exactly once: a
\* handler that has finished has closed it once, no socket is closed twice,
\* and none is closed by anything but the last step of its handler.
C11_ClosedExactlyOnce ==
    \A c \in Clients :
        /\ closes[c] <= 1
        /\ hpc[c] = "done" <=> closes[c] = 1

\* C11 witness: one handler has finished after the exit signal of the idle
\* sweep, the other after an abnormal end it has notified, both closed once.
C11_Witness ==
    \E c, d \in Clients :
        /\ hpc[c] = "done" /\ closes[c] = 1 /\ status[c] = EXIT
        /\ hpc[d] = "done" /\ closes[d] = 1 /\ status[d] = ERROR

\* the rest of the exit path of a handler that has set ERROR: it clears the
\* command, then puts the session on the hand-off queue, its socket still open
NotifiesBeforeClose(c) ==
    /\ (hpc[c] = "clearCmd" /\ hpc'[c] # "clearCmd") =>
           cmd'[c] = NoCmd /\ hpc'[c] = "notify" /\ closes'[c] = 0
    /\ (hpc[c] = "notify" /\ hpc'[c] # "notify") =>
           /\ cmd[c] = NoCmd /\ closes[c] = 0
           /\ commands' = Append(commands, c)
           /\ hpc'[c] = "close"

C13_NoWriteAfterLoop ==
    [][\A c \in Clients :
          LeftLoop(c) => wrote'[c] = wrote[c] /\ hpc'[c] # "write" /\ hpc'[c] # "loop"]_vars

\* C13 witness: a handler has ended on a failure and closed, and the event
\* loop has since delivered the reply of a command that was still queued.
C13_Witness ==
    \E c \in Clients :
        /\ hpc[c] = "done" /\ status[c] = ERROR
        /\ res[c] # <<>>
        /\ Len(wrote[c]) < Len(Executed(c))

\* C14: the registry changes only in a step of the event loop, its status
\* check of a dequeued client or the time event of its timer branch, with no
\* command in execution and no handler taking part in the step.
C14_RegistryOnlyInLoop ==
    [][clis' # clis =>
          /\ \/ lpc = "checkStatus"
             \/ lpc = "select" /\ timerLeft = 0 /\ sweepLeft = 0
          /\ executing = {} /\ executing' = {}
          /\ hpc' = hpc /\ cmd' = cmd /\ commands' = commands]_vars

\* C14 witness: one session is registered, another has had a command
\* executed and is in the registry no more.
C14_Witness ==
    \E c, d \in Clients :
        /\ c \in clis
        /\ d \notin clis /\ Executed(d) # <<>> /\ lpc = "select"

C16_TimestampOnProcessedOnly ==
    [][/\ (lpc = "checkStatus" /\ lpc' = "route") =>
              /\ idle'[cli] = 0
              /\ \A c \in Clients \ {cli} : idle'[c] = idle[c]
       /\ execLog' # execLog => idle[cli] = 0
       /\ (lpc \in {"checkCmd", "checkStatus"} /\ lpc' = "select") =>
              idle' = idle]_vars

\* C16 witness: the loop has just refreshed the timestamp of the session it
\* is processing, after time in which another registered session went idle.
C16_Witness ==
    /\ lpc = "route" /\ idle[cli] = 0
    /\ \E d \in clis \ {cli} : idle[d] = IdleThreshold

\* how often session c is buffered in Server.commands
Queued(c) == Cardinality({k \in DOMAIN commands : commands[k] = c})

\* C17: a handler that finds its status not EXIT after its loop goes on to
\* set ERROR, clear the command and send the session on the hand-off queue
\* once, with the command empty and the status ERROR at that send and the
\* socket not yet closed; no other step it takes after its loop sends.
C17_OneLastNotification ==
    [][\A c \in Clients :
          /\ (hpc[c] = "after" /\ hpc'[c] # "after" /\ status[c] # EXIT) =>
                 hpc'[c] = "setError"
          /\ (hpc[c] = "setError" /\ hpc'[c] # "setError") => hpc'[c] = "clearCmd"
          /\ (hpc[c] = "clearCmd" /\ hpc'[c] # "clearCmd") => hpc'[c] = "notify"
          /\ (hpc[c] = "notify" /\ hpc'[c] # "notify") =>
                 /\ commands' = Append(commands, c)
                 /\ cmd[c] = NoCmd /\ status[c] = ERROR
                 /\ closes[c] = 0 /\ hpc'[c] = "close"
          /\ (LeftLoop(c) /\ hpc[c] # "notify") => Queued(c)' <= Queued(c)]_vars

\* C18: the command in execution is run by cmd.Get when it has exactly two
\* arguments and by cmd.Set when it has any other number of them.
C18_RoutedByArgCount ==
    \A e \in executing : e.fn = (IF e.arg.argc = 2 THEN "Get" ELSE "Set")

\* C19: the command handed to cmd.Get / cmd.Set is never the empty command.
C19_ExecutedCommandNotEmpty ==
    \A e \in executing : e.arg # NoCmd

\* C20: the final send of a handler never blocks for good, so the handler
\* closes and ends: no handler waits in that send on the full hand-off queue
\* while the event loop, the only receiver of the queue, is itself blocked in a
\* reply send that nobody will ever receive.
C20_FinalSendNeverStuck ==
    ~ \E c \in Clients : hpc[c] = "notify" /\ ~CanSend /\ LoopStuck

====
